---- MODULE Spec2Model ----
(***************************************************************************)
(* grep-lite (src/src/main.rs): main resolves the command line into an     *)
(* ordered list of streams (standard input, each path, or every regular    *)
(* file under a path), and process_line scans one stream at a time with a  *)
(* bounded look-behind buffer and a look-ahead countdown.                  *)
(*                                                                         *)
(* The environment (what the reader yields next, whether a file opens,     *)
(* what the directory walk yields) answers nondeterministically.  Of the   *)
(* standard output the state keeps what the current process_line call has  *)
(* printed (`out`); of an earlier stream it keeps the name and how its     *)
(* scan ended (`streams`), and of all earlier output whether records went  *)
(* out with or without a name (`shapes`).  The three context options are   *)
(* read once, when main sets its locals; the state holds them until main   *)
(* turns to its inputs.                                                    *)
(*                                                                         *)
(* The pattern engine is external.  Its contract is modelled by the        *)
(* literal pattern "p" over lines that are sequences of characters:        *)
(* is_match finds an occurrence, replace_all rewrites every occurrence.    *)
(***************************************************************************)
EXTENDS Integers, Sequences, FiniteSets, TLC

\* ---------------------------------------------------------------- bounds
\* most command-line inputs
MaxArgs == 2
\* most regular files one recursive walk yields
MaxEntries == 2
\* most streams handed to the engine in one run
MaxStreams == 2
\* most lines one stream yields
MaxLines == 4
\* largest -B value
MaxBefore == 2
\* largest -A value
MaxAfter == 1
\* largest -C value
MaxContext == 2

\* ------------------------------------------------------------ vocabulary
\* the lines a reader can yield
LineTexts == { <<"o">>, <<"p", "o">> }

\* the display name of standard input, "-"
StdinName == <<0, 0>>

\* the display name of a path: the input itself (entry 0) or the e-th file
\* the walk yields under it
PathName(i, e) == <<i, e>>

VARIABLES
    pc,                 \* where main is
    args,               \* the parsed command line (struct Grep): the flags
    options,            \* the parsed command line: the context options
    is_multiple_files,  \* main's local
    before_context,     \* main's local: the effective -B
    after_context,      \* main's local: the effective -A
    input_idx,          \* how many inputs the for loop has taken
    entry_idx,          \* how many files the current walk has yielded
    file_name,          \* process_line's stream name
    labelled,           \* process_line's is_multiple_files parameter
    index,              \* process_line's enumerate() counter
    current_count,      \* process_line's local
    before_buffer,      \* process_line's local
    after_countdown,    \* process_line's local
    out,                \* what the current process_line call has printed
    calls,              \* the index of each print_line_.. call it has made
    yielded,            \* the lines the current stream has yielded
    back,               \* where the current call returns to
    streams,            \* the streams resolved so far, oldest first
    shapes              \* the prefix lengths on the records printed so far

vars == << pc, args, options, is_multiple_files, before_context, after_context,
           input_idx, entry_idx, file_name, labelled, index, current_count,
           before_buffer, after_countdown, out, calls, yielded, back,
           streams, shapes >>

\* ------------------------------------------------------- pattern engine
\* Regex::is_match for the pattern "p"
is_match(line) == \E i \in 1..Len(line) : line[i] = "p"

\* caps[0].bright_red().bold().to_string(): the match between two escapes
Styled(c) == << "<b>", c, "</b>" >>

RECURSIVE replace_all(_)
\* Regex::replace_all with the styling closure: every occurrence is
\* rewritten, every other character is kept
replace_all(line) ==
    IF line = << >> THEN << >>
    ELSE (IF Head(line) = "p" THEN Styled(Head(line)) ELSE << Head(line) >>)
         \o replace_all(Tail(line))

\* ------------------------------------------------------- output records
LineRecord(prefix, lineno, text) ==
    [kind |-> "line", prefix |-> prefix, num |-> lineno, text |-> text]

SummaryRecord(prefix, n) ==
    [kind |-> "count", prefix |-> prefix, num |-> n, text |-> << >>]

ErrorRecord(name) ==
    [kind |-> "error", prefix |-> << name >>, num |-> 0, text |-> << >>]

\* ------------------------------------------------------------ the engine
\* The scan state of process_line with the output it has produced and the
\* calls of print_line_with_highlighted_text it has made:
\* [current_count, before_buffer, after_countdown, out, calls].
ScanInit ==
    [current_count |-> 0, before_buffer |-> << >>, after_countdown |-> 0,
     out |-> << >>, calls |-> << >>]

\* print_line_with_highlighted_text as it would be if the invert flag did
\* not switch the highlighting off
print_line_always_highlights(s, count, line, idx, multi, name, invert) ==
    IF count
    THEN [s EXCEPT !.current_count = @ + 1, !.calls = Append(@, idx)]
    ELSE LET highlighted_line == replace_all(line)
             prefix == IF multi THEN << name >> ELSE << >>
         IN  [s EXCEPT !.out = Append(@, LineRecord(prefix, idx + 1, highlighted_line)),
                       !.calls = Append(@, idx)]

\* print_line_with_highlighted_text as it would be if count mode printed
\* the line as well
print_line_counts_and_prints(s, count, line, idx, multi, name, invert) ==
    LET highlighted_line == IF invert THEN line ELSE replace_all(line)
        prefix == IF multi THEN << name >> ELSE << >>
    IN  [s EXCEPT !.out = Append(@, LineRecord(prefix, idx + 1, highlighted_line)),
                  !.current_count = IF count THEN @ + 1 ELSE @,
                  !.calls = Append(@, idx)]

\* print_line_with_highlighted_text
print_line_with_highlighted_text(s, count, line, idx, multi, name, invert) ==
    IF count
    THEN [s EXCEPT !.current_count = @ + 1, !.calls = Append(@, idx)]
    ELSE LET highlighted_line == IF invert THEN line ELSE replace_all(line)
             prefix == IF multi THEN << name >> ELSE << >>
         IN  [s EXCEPT !.out = Append(@, LineRecord(prefix, idx + 1, highlighted_line)),
                       !.calls = Append(@, idx)]

RECURSIVE FlushFrom_newest_first(_, _, _, _, _, _)
\* FlushFrom as a loop over before_buffer.iter().rev() would be
FlushFrom_newest_first(s, buf, count, multi, name, invert) ==
    IF buf = << >> THEN s
    ELSE FlushFrom_newest_first(
            print_line_with_highlighted_text(
                s, count, buf[Len(buf)][2], buf[Len(buf)][1], multi, name, invert),
            SubSeq(buf, 1, Len(buf) - 1), count, multi, name, invert)

RECURSIVE FlushFrom(_, _, _, _, _, _)
\* for (before_index, before_line) in before_buffer.iter() { print ... }
FlushFrom(s, buf, count, multi, name, invert) ==
    IF buf = << >> THEN s
    ELSE FlushFrom(
            print_line_with_highlighted_text(
                s, count, Head(buf)[2], Head(buf)[1], multi, name, invert),
            Tail(buf), count, multi, name, invert)

\* match_found as it would be with the invert flag left out
match_found_not_inverted(line, invert) == is_match(line)

\* let match_found = re.is_match(&line) != invert_match
match_found(line, invert) == is_match(line) # invert

\* MatchBranch as it would be if the flushed lines were printed under the
\* index of the match that flushes them
MatchBranch_numbers_flushed_as_match(s, line, idx, count, multi, name, invert, after) ==
    LET renumbered == [k \in 1..Len(s.before_buffer) |->
                          << idx, s.before_buffer[k][2] >>]
        flushed == FlushFrom(s, renumbered, count, multi, name, invert)
        cleared == [flushed EXCEPT !.before_buffer = << >>]
        printed == print_line_with_highlighted_text(
                       cleared, count, line, idx, multi, name, invert)
    IN  [printed EXCEPT !.after_countdown = after]

\* MatchBranch as it would be if a match added a window to the one running
MatchBranch_adds_window(s, line, idx, count, multi, name, invert, after) ==
    LET flushed == FlushFrom(s, s.before_buffer, count, multi, name, invert)
        cleared == [flushed EXCEPT !.before_buffer = << >>]
        printed == print_line_with_highlighted_text(
                       cleared, count, line, idx, multi, name, invert)
    IN  [printed EXCEPT !.after_countdown = @ + after]

\* MatchBranch as it would be if count mode counted the matching line only
MatchBranch_counts_match_only(s, line, idx, count, multi, name, invert, after) ==
    LET flushed == IF count THEN s
                   ELSE FlushFrom(s, s.before_buffer, count, multi, name, invert)
        cleared == [flushed EXCEPT !.before_buffer = << >>]
        printed == print_line_with_highlighted_text(
                       cleared, count, line, idx, multi, name, invert)
    IN  [printed EXCEPT !.after_countdown = after]

\* the if match_found { ... } branch
MatchBranch(s, line, idx, count, multi, name, invert, after) ==
    LET flushed == FlushFrom(s, s.before_buffer, count, multi, name, invert)
        cleared == [flushed EXCEPT !.before_buffer = << >>]
        printed == print_line_with_highlighted_text(
                       cleared, count, line, idx, multi, name, invert)
    IN  [printed EXCEPT !.after_countdown = after]

\* AfterBranch as it would be if the line were also kept as before-context
AfterBranch_also_buffers(s, line, idx, count, multi, name, invert) ==
    LET printed == print_line_with_highlighted_text(
                       s, count, line, idx, multi, name, invert)
    IN  [printed EXCEPT !.after_countdown = @ - 1,
                        !.before_buffer = Append(@, << idx, line >>)]

\* the else if after_countdown > 0 { ... } branch
AfterBranch(s, line, idx, count, multi, name, invert) ==
    LET printed == print_line_with_highlighted_text(
                       s, count, line, idx, multi, name, invert)
    IN  [printed EXCEPT !.after_countdown = @ - 1]

\* before_buffer.push_back((index, line))
PushBack(s, line, idx) ==
    [s EXCEPT !.before_buffer = Append(@, << idx, line >>)]

\* PopFront as it would be with pop_back in place of pop_front
PopFront_drops_newest(s, before) ==
    IF Len(s.before_buffer) > before
    THEN [s EXCEPT !.before_buffer = SubSeq(@, 1, Len(@) - 1)]
    ELSE s

\* PopFront as it would be if the length check were left out
PopFront_not_taken(s, before) == s

\* PopFront as it would be with the bound off by one
PopFront_one_late(s, before) ==
    IF Len(s.before_buffer) > before + 1
    THEN [s EXCEPT !.before_buffer = Tail(@)]
    ELSE s

\* if before_buffer.len() > before_context { before_buffer.pop_front(); }
PopFront(s, before) ==
    IF Len(s.before_buffer) > before
    THEN [s EXCEPT !.before_buffer = Tail(@)]
    ELSE s

\* LoopBody as it would be with the two else branches the other way round
LoopBody_buffers_first(s, line, idx, count, multi, name, invert, after, before) ==
    IF match_found(line, invert)
    THEN MatchBranch(s, line, idx, count, multi, name, invert, after)
    ELSE IF before > 0
    THEN PopFront(PushBack(s, line, idx), before)
    ELSE IF s.after_countdown > 0
    THEN AfterBranch(s, line, idx, count, multi, name, invert)
    ELSE s

\* one iteration of the for loop over a line that was read
LoopBody(s, line, idx, count, multi, name, invert, after, before) ==
    IF match_found(line, invert)
    THEN MatchBranch(s, line, idx, count, multi, name, invert, after)
    ELSE IF s.after_countdown > 0
    THEN AfterBranch(s, line, idx, count, multi, name, invert)
    ELSE PopFront(PushBack(s, line, idx), before)

\* if count { println!(...) } after the loop
Summary(s, count, multi, name) ==
    IF count
    THEN [s EXCEPT !.out = Append(@,
            SummaryRecord(IF multi THEN << name >> ELSE << >>, s.current_count))]
    ELSE s

RECURSIVE ScanFrom(_, _, _, _, _, _, _, _, _)
\* the for loop of process_line over lines that all read without error
ScanFrom(s, lines, idx, count, multi, name, invert, after, before) ==
    IF lines = << >> THEN s
    ELSE ScanFrom(
            LoopBody(s, Head(lines), idx, count, multi, name, invert, after, before),
            Tail(lines), idx + 1, count, multi, name, invert, after, before)

\* process_line on a stream that yields `lines` and then ends, or fails
\* to yield the next one (failed): everything it prints
process_line(lines, failed, invert, count, multi, name, after, before) ==
    LET scanned == ScanFrom(ScanInit, lines, 0, count, multi, name, invert, after, before)
        noticed == IF failed
                   THEN [scanned EXCEPT !.out = Append(@, ErrorRecord(name))]
                   ELSE scanned
    IN  Summary(noticed, count, multi, name).out

\* ------------------------------------------------------------- the state
\* process_line's locals as one record
Scan ==
    [current_count |-> current_count, before_buffer |-> before_buffer,
     after_countdown |-> after_countdown, out |-> out, calls |-> calls]

\* the line and summary records of an output
Records(o) == { o[k] : k \in { j \in 1..Len(o) : o[j].kind # "error" } }

\* the prefix lengths on the line and summary records of an output:
\* 0 for a record without a name, 1 for a record with one
Shapes(o) == { Len(r.prefix) : r \in Records(o) }

\* a stream as `streams` remembers it
Stream(name, state) == [name |-> name, state |-> state]

Init ==
    /\ pc = "start"
    /\ args \in [ pattern_ok : BOOLEAN,
                  inputs : 0..MaxArgs,
                  invert_match : BOOLEAN,
                  count : BOOLEAN,
                  recursive : BOOLEAN ]
    /\ options \in [ after_context : 0..MaxAfter,
                     before_context : 0..MaxBefore,
                     context : 0..MaxContext ]
    /\ is_multiple_files = FALSE
    /\ before_context = 0
    /\ after_context = 0
    /\ input_idx = 0
    /\ entry_idx = 0
    /\ file_name = StdinName
    /\ labelled = FALSE
    /\ index = 0
    /\ current_count = 0
    /\ before_buffer = << >>
    /\ after_countdown = 0
    /\ out = << >>
    /\ calls = << >>
    /\ yielded = << >>
    /\ back = "loop"
    /\ streams = << >>
    /\ shapes = {}

\* ------------------------------------------------------------------ main
\* BuildPanics as it would be if the pattern were compiled at first use
BuildPanics_at_first_use ==
    /\ pc = "start"
    /\ ~args.pattern_ok
    /\ is_multiple_files' = (args.inputs > 1)
    /\ before_context' = IF options.context > 0 THEN options.context
                         ELSE options.before_context
    /\ after_context' = IF options.context > 0 THEN options.context
                        ELSE options.after_context
    /\ pc' = "configured"
    /\ UNCHANGED << args, options, input_idx, entry_idx, file_name, labelled,
                    index, current_count, before_buffer, after_countdown, out,
                    calls, yielded, back, streams, shapes >>

\* RegexBuilder::new(..).build().unwrap() on a malformed pattern
BuildPanics ==
    /\ pc = "start"
    /\ ~args.pattern_ok
    /\ pc' = "panicked"
    /\ UNCHANGED << args, options, is_multiple_files, before_context,
                    after_context,
                    input_idx, entry_idx, file_name, labelled, index,
                    current_count, before_buffer, after_countdown, out, calls,
                    yielded, back, streams, shapes >>

\* Configure as it would be if -C only widened the separate values
Configure_context_as_minimum ==
    /\ pc = "start"
    /\ args.pattern_ok
    /\ is_multiple_files' = (args.inputs > 1)
    /\ before_context' = IF options.context > options.before_context
                         THEN options.context ELSE options.before_context
    /\ after_context' = IF options.context > options.after_context
                        THEN options.context ELSE options.after_context
    /\ pc' = "configured"
    /\ UNCHANGED << args, options, input_idx, entry_idx, file_name, labelled,
                    index,
                    current_count, before_buffer, after_countdown, out, calls,
                    yielded, back, streams, shapes >>

\* main up to the first stream: the pattern compiles, the locals are set
Configure ==
    /\ pc = "start"
    /\ args.pattern_ok
    /\ is_multiple_files' = (args.inputs > 1)
    /\ before_context' = IF options.context > 0 THEN options.context
                         ELSE options.before_context
    /\ after_context' = IF options.context > 0 THEN options.context
                        ELSE options.after_context
    /\ pc' = "configured"
    /\ UNCHANGED << args, options, input_idx, entry_idx, file_name, labelled,
                    index,
                    current_count, before_buffer, after_countdown, out, calls,
                    yielded, back, streams, shapes >>

\* if inputs.is_empty() { .. } for input in inputs { .. }: main turns to
\* its inputs
Dispatch ==
    /\ pc = "configured"
    /\ pc' = IF args.inputs = 0 THEN "stdin" ELSE "loop"
    /\ options' = << >>
    /\ UNCHANGED << args, is_multiple_files, before_context, after_context,
                    input_idx, entry_idx, file_name, labelled, index,
                    current_count, before_buffer, after_countdown, out, calls,
                    yielded, back, streams, shapes >>

\* Enter as it would be if the scan state were kept between calls
Enter_keeps_locals(name, multi, ret) ==
    /\ pc' = "scan"
    /\ file_name' = name
    /\ labelled' = multi
    /\ index' = 0
    /\ out' = ScanInit.out
    /\ calls' = ScanInit.calls
    /\ yielded' = << >>
    /\ back' = ret
    /\ streams' = Append(streams, Stream(name, "open"))
    /\ UNCHANGED << current_count, before_buffer, after_countdown >>

\* the entry of process_line: fresh locals for the stream `name`
Enter(name, multi, ret) ==
    /\ pc' = "scan"
    /\ file_name' = name
    /\ labelled' = multi
    /\ index' = 0
    /\ current_count' = ScanInit.current_count
    /\ before_buffer' = ScanInit.before_buffer
    /\ after_countdown' = ScanInit.after_countdown
    /\ out' = ScanInit.out
    /\ calls' = ScanInit.calls
    /\ yielded' = << >>
    /\ back' = ret
    /\ streams' = Append(streams, Stream(name, "open"))

\* if inputs.is_empty() { process_line(stdin.lock(), .., false, "-", ..)?; }
ScanStdin ==
    /\ pc = "stdin"
    /\ Enter(StdinName, FALSE, "loop")
    /\ UNCHANGED << args, options, is_multiple_files, before_context,
                    after_context,
                    input_idx, entry_idx, shapes >>

\* process_file: File::open(file_name)? and then process_line on the file;
\* the ? in main returns the error of a file that does not open
process_file(name, ret) ==
    \E opened \in BOOLEAN :
        /\ Len(streams) < MaxStreams
        /\ IF opened
           THEN Enter(name, is_multiple_files, ret)
           ELSE /\ pc' = "failed"
                /\ streams' = Append(streams, Stream(name, "unopened"))
                /\ UNCHANGED << file_name, labelled, index, current_count,
                                before_buffer, after_countdown, out, calls, yielded,
                                back >>

\* for input in inputs, not recursive: process_file(input, ..)?
NextInputFile ==
    /\ pc = "loop"
    /\ ~args.recursive
    /\ input_idx < args.inputs
    /\ input_idx' = input_idx + 1
    /\ process_file(PathName(input_idx + 1, 0), "loop")
    /\ UNCHANGED << args, options, is_multiple_files, before_context,
                    after_context,
                    entry_idx, shapes >>

\* for input in inputs, recursive: WalkDir::new(input) starts
NextInputWalk ==
    /\ pc = "loop"
    /\ args.recursive
    /\ input_idx < args.inputs
    /\ input_idx' = input_idx + 1
    /\ entry_idx' = 0
    /\ pc' = "walk"
    /\ UNCHANGED << args, options, is_multiple_files, before_context,
                    after_context,
                    file_name, labelled, index, current_count, before_buffer,
                    after_countdown, out, calls, yielded, back, streams, shapes >>

\* the walk yields its next regular file (failed entries and entries that
\* are no regular file are skipped): process_file(entry.path(), ..)?
WalkFile ==
    /\ pc = "walk"
    /\ entry_idx < MaxEntries
    /\ entry_idx' = entry_idx + 1
    /\ process_file(PathName(input_idx, entry_idx + 1), "walk")
    /\ UNCHANGED << args, options, is_multiple_files, before_context,
                    after_context,
                    input_idx, shapes >>

\* the walk has no more entries
WalkEnd ==
    /\ pc = "walk"
    /\ pc' = "loop"
    /\ UNCHANGED << args, options, is_multiple_files, before_context,
                    after_context,
                    input_idx, entry_idx, file_name, labelled, index,
                    current_count, before_buffer, after_countdown, out, calls,
                    yielded, back, streams, shapes >>

\* the for loop has no more inputs: Ok(())
MainReturns ==
    /\ pc = "loop"
    /\ input_idx = args.inputs
    /\ pc' = "done"
    /\ UNCHANGED << args, options, is_multiple_files, before_context,
                    after_context,
                    input_idx, entry_idx, file_name, labelled, index,
                    current_count, before_buffer, after_countdown, out, calls,
                    yielded, back, streams, shapes >>

\* ---------------------------------------------------------- process_line
\* what one loop step writes back to the locals
Store(s) ==
    /\ current_count' = s.current_count
    /\ before_buffer' = s.before_buffer
    /\ after_countdown' = s.after_countdown
    /\ out' = s.out
    /\ calls' = s.calls

\* the reader yields Ok(line) and the line matches or is after-context
ReadEmit ==
    /\ pc = "scan"
    /\ Len(yielded) < MaxLines
    /\ \E line \in LineTexts :
        /\ match_found(line, args.invert_match) \/ after_countdown > 0
        /\ Store(LoopBody(Scan, line, index, args.count, labelled, file_name,
                          args.invert_match, after_context, before_context))
        /\ yielded' = Append(yielded, line)
    /\ index' = index + 1
    /\ UNCHANGED << pc, args, options, is_multiple_files, before_context,
                    after_context,
                    input_idx, entry_idx, file_name, labelled, back, streams,
                    shapes >>

\* the reader yields Ok(line) and the line goes to the look-behind buffer
ReadPush ==
    /\ pc = "scan"
    /\ Len(yielded) < MaxLines
    /\ \E line \in LineTexts :
        /\ ~match_found(line, args.invert_match)
        /\ after_countdown = 0
        /\ Store(PushBack(Scan, line, index))
        /\ yielded' = Append(yielded, line)
    /\ pc' = "pushed"
    /\ UNCHANGED << args, options, is_multiple_files, before_context,
                    after_context,
                    input_idx, entry_idx, file_name, labelled, index, back,
                    streams, shapes >>

\* the length check after push_back, and the end of the iteration
Evict ==
    /\ pc = "pushed"
    /\ Store(PopFront(Scan, before_context))
    /\ index' = index + 1
    /\ pc' = "scan"
    /\ UNCHANGED << args, options, is_multiple_files, before_context,
                    after_context,
                    input_idx, entry_idx, file_name, labelled, yielded, back,
                    streams, shapes >>

\* Leave as it would be if the lines still buffered went out at the end
Leave_flushes(s, how) ==
    /\ out' = Summary(FlushFrom(s, s.before_buffer, args.count, labelled,
                                 file_name, args.invert_match),
                       args.count, labelled, file_name).out
    /\ streams' = [streams EXCEPT ![Len(streams)] = Stream(file_name, how)]
    /\ shapes' = shapes \cup Shapes(out')
    /\ pc' = "returned"
    /\ UNCHANGED << args, options, is_multiple_files, before_context,
                    after_context,
                    input_idx, entry_idx, file_name, labelled, index,
                    current_count, before_buffer, after_countdown, calls,
                    yielded, back >>

\* leaving process_line: the summary, Ok(()), and back in main
Leave(s, how) ==
    /\ out' = Summary(s, args.count, labelled, file_name).out
    /\ streams' = [streams EXCEPT ![Len(streams)] = Stream(file_name, how)]
    /\ shapes' = shapes \cup Shapes(out')
    /\ pc' = "returned"
    /\ UNCHANGED << args, options, is_multiple_files, before_context,
                    after_context,
                    input_idx, entry_idx, file_name, labelled, index,
                    current_count, before_buffer, after_countdown, calls,
                    yielded, back >>

\* the reader is exhausted
EndOfStream ==
    /\ pc = "scan"
    /\ Leave(Scan, "ended")

\* ReadError as it would be with `line?` in place of the match: the error
\* goes up to main and ends the run
ReadError_propagates ==
    /\ pc = "scan"
    /\ streams' = [streams EXCEPT ![Len(streams)] = Stream(file_name, "broken")]
    /\ pc' = "failed"
    /\ UNCHANGED << args, options, is_multiple_files, before_context,
                    after_context, input_idx, entry_idx, file_name, labelled,
                    index, current_count, before_buffer, after_countdown, out,
                    calls, yielded, back, shapes >>

\* ReadError as it would be with `return Ok(())` in place of the break
ReadError_returns_at_once ==
    /\ pc = "scan"
    /\ out' = Append(out, ErrorRecord(file_name))
    /\ streams' = [streams EXCEPT ![Len(streams)] = Stream(file_name, "broken")]
    /\ shapes' = shapes \cup Shapes(out')
    /\ pc' = "returned"
    /\ UNCHANGED << args, options, is_multiple_files, before_context,
                    after_context, input_idx, entry_idx, file_name, labelled,
                    index, current_count, before_buffer, after_countdown,
                    calls, yielded, back >>

\* the reader yields Err(e): the notice, break
ReadError ==
    /\ pc = "scan"
    /\ Leave([Scan EXCEPT !.out = Append(@, ErrorRecord(file_name))], "broken")

\* process_line(..)? on Ok(()): main goes on after the call, in the for
\* loop or, for standard input, before it
Resume ==
    /\ pc = "returned"
    /\ pc' = back
    /\ out' = << >>
    /\ calls' = << >>
    /\ yielded' = << >>
    /\ UNCHANGED << args, options, is_multiple_files, before_context,
                    after_context, input_idx, entry_idx, file_name, labelled,
                    index, current_count, before_buffer, after_countdown,
                    back, streams, shapes >>

Next ==
    \/ BuildPanics
    \/ Configure
    \/ Dispatch
    \/ ScanStdin
    \/ NextInputFile
    \/ NextInputWalk
    \/ WalkFile
    \/ WalkEnd
    \/ MainReturns
    \/ ReadEmit
    \/ ReadPush
    \/ Evict
    \/ EndOfStream
    \/ ReadError
    \/ Resume

Spec == Init /\ [][Next]_vars

\* ------------------------------------------------------------ properties
\* the stream the engine was last handed, if any
HasStream == Len(streams) > 0
Last == streams[Len(streams)]

\* process_line is running or has just returned
InCall == pc \in {"scan", "pushed", "returned"}
Returned == pc = "returned"

\* the line records of an output, in order
LineRecords(o) == SelectSeq(o, LAMBDA r : r.kind = "line")
CountRecords(o) == SelectSeq(o, LAMBDA r : r.kind = "count")

\* the 0-based positions the line records of an output carry
Positions(o) == { LineRecords(o)[k].num - 1 : k \in 1..Len(LineRecords(o)) }

\* a line qualifies iff the pattern matches it XOR the invert flag is set
Qualifies(line, invert) == (is_match(line) /\ ~invert) \/ (~is_match(line) /\ invert)

\* the 0-based positions of the matching lines of a stream
Matches(ls, invert) == { i \in 0..(Len(ls) - 1) : Qualifies(ls[i + 1], invert) }

\* the positions within `before` lines before or `after` lines after a
\* matching line, clipped to the stream
Window(ls, invert, before, after) ==
    LET ms == Matches(ls, invert)
    IN  { j \in 0..(Len(ls) - 1) :
            \E i \in ms : i - before <= j /\ j <= i + after }

\* a sequence of numbers without a repetition
Distinct(q) == \A i, j \in 1..Len(q) : i # j => q[i] # q[j]

\* a strictly increasing sequence of numbers
Increasing(q) == \A i, j \in 1..Len(q) : i < j => q[i] < q[j]

\* the numbers on the line records of an output, in order
Numbers(o) == [k \in 1..Len(LineRecords(o)) |-> LineRecords(o)[k].num]

\* a text with the styling escapes taken out
Plain(text) == SelectSeq(text, LAMBDA c : c \notin {"<b>", "</b>"})

\* C1: in print mode the positions process_line has emitted are exactly the
\* positions within `before` lines before or `after` lines after a matching
\* line of the lines read: none outside a window, all inside one.
C1_EmittedIsWindow ==
    (InCall /\ ~args.count) =>
        Positions(out) = Window(yielded, args.invert_match,
                                before_context, after_context)

\* a returned print-mode scan that dropped a line, emitted a line before
\* a match and emitted a line after a match
C1_Witness ==
    /\ Returned /\ ~args.count
    /\ before_context > 0 /\ after_context > 0
    /\ \E d \in 0..(Len(yielded) - 1) : d \notin Positions(out)
    /\ \E j \in Positions(out) :
        /\ j \notin Matches(yielded, args.invert_match)
        /\ (j + 1) \in Matches(yielded, args.invert_match)
    /\ \E j \in Positions(out) :
        /\ j \notin Matches(yielded, args.invert_match)
        /\ (j - 1) \in Matches(yielded, args.invert_match)

\* C2: during one process_line call no line index is emitted (print mode)
\* or counted (count mode) twice: the calls of
\* print_line_with_highlighted_text carry pairwise different indices, every
\* call emits one record or counts one, and no two records carry the same
\* line number.
C2_AtMostOnce ==
    InCall =>
        /\ Distinct(calls)
        /\ args.count => current_count = Len(calls)
        /\ ~args.count => /\ Len(LineRecords(out)) = Len(calls)
                          /\ Distinct(Numbers(out))

\* a line between two matches, inside the after-window of the first and
\* the before-window of the second, with both matches processed
C2_Witness ==
    /\ InCall /\ pc = "scan"
    /\ before_context > 0 /\ after_context > 0
    /\ \E j \in 1..(Len(yielded) - 2) :
        /\ (j - 1) \in Matches(yielded, args.invert_match)
        /\ j \notin Matches(yielded, args.invert_match)
        /\ (j + 1) \in Matches(yielded, args.invert_match)
        /\ \E k \in 1..Len(calls) : calls[k] = j

\* C3: lines are emitted in stream order: the indices of the calls of
\* print_line_with_highlighted_text, and the line numbers printed, are
\* strictly increasing, so flushed before-context goes out oldest first,
\* after everything emitted earlier and before the match that flushes it.
C3_StreamOrder ==
    InCall =>
        /\ Increasing(calls)
        /\ ~args.count => Increasing(Numbers(out))

\* two buffered lines were flushed by a match, after an earlier emission
C3_Witness ==
    /\ InCall /\ ~args.count /\ pc = "scan"
    /\ Len(calls) >= 4
    /\ \E m \in Matches(yielded, args.invert_match) :
        /\ m >= 3
        /\ (m - 1) \notin Matches(yielded, args.invert_match)
        /\ (m - 2) \notin Matches(yielded, args.invert_match)
        /\ (m - 3) \in Matches(yielded, args.invert_match)
        /\ after_context = 0
        /\ {m - 2, m - 1, m} \subseteq Positions(out)

\* what process_line prints for the current stream in the other mode
OtherMode(count) ==
    process_line(yielded, Last.state = "broken", args.invert_match, count,
                 labelled, file_name, after_context, before_context)

\* C4: the number the count-mode summary reports is the number of lines
\* print mode emits for the same stream, predicate, invert flag and context
\* sizes (and the lines a print-mode call has emitted are as many as the
\* count-mode call reports).
C4_CountIsPrinted ==
    Returned =>
        /\ args.count =>
            /\ Len(CountRecords(out)) = 1
            /\ CountRecords(out)[1].num = Len(LineRecords(OtherMode(FALSE)))
        /\ ~args.count =>
            Len(LineRecords(out)) = CountRecords(OtherMode(TRUE))[1].num

\* a count-mode summary over matches, before-context and after-context
C4_Witness ==
    /\ Returned /\ args.count
    /\ before_context > 0 /\ after_context > 0
    /\ Len(CountRecords(out)) = 1
    /\ CountRecords(out)[1].num >= 3
    /\ CountRecords(out)[1].num < Len(yielded)
    /\ Cardinality(Matches(yielded, args.invert_match)) = 1

\* C5: with before = 0 and after = 0 the print-mode output, prefixes and
\* highlighting aside, is the subsequence of the lines read that satisfy
\* the predicate, in order, and the look-behind buffer is empty at every
\* iteration boundary.
C5_NoContext ==
    (InCall /\ before_context = 0 /\ after_context = 0) =>
        /\ ~args.count =>
            /\ Len(LineRecords(out)) = Len(SelectSeq(yielded,
                    LAMBDA l : Qualifies(l, args.invert_match)))
            /\ \A k \in 1..Len(LineRecords(out)) :
                Plain(LineRecords(out)[k].text) =
                    SelectSeq(yielded,
                        LAMBDA l : Qualifies(l, args.invert_match))[k]
        /\ pc # "pushed" => before_buffer = << >>

\* a no-context print-mode scan over qualifying and other lines, in
\* invert mode
C5_Witness ==
    /\ Returned /\ ~args.count /\ args.invert_match
    /\ before_context = 0 /\ after_context = 0
    /\ Len(LineRecords(out)) >= 2
    /\ Len(LineRecords(out)) < Len(yielded)
    /\ Len(yielded) >= 4

\* the prefix lengths on every line and summary record printed so far
AllShapes == shapes \cup Shapes(out)

\* the streams resolved so far that were handed to process_line
Resolved == Len(SelectSeq(streams, LAMBDA st : st.state # "unopened"))

\* C6: with exactly one resolved input no record carries a stream name;
\* with two or more resolved inputs (several files of one recursive walk
\* included) every line record and every summary carries the name of its
\* stream.
C6_LabelledByResolvedInputs ==
    /\ Resolved >= 2 =>
        /\ AllShapes \subseteq {1}
        /\ \A r \in Records(out) : r.prefix = << file_name >>
    /\ (pc = "done" /\ Resolved = 1 /\ Len(streams) = 1) =>
        AllShapes \subseteq {0}

\* C7: an input that cannot be opened does not stop the run: main is never
\* left with an error, so the inputs after it are still taken.
C7_OpenFailureIsSkipped ==
    \A k \in 1..Len(streams) : streams[k].state = "unopened" => pc # "failed"

\* the step in which the reader fails
ReadFails == pc = "scan" /\ pc' = "returned" /\ Last'.state = "broken"

\* C8: a read failure stops the scan of its stream (nothing more is
\* classified, buffered, emitted or counted for it), prints a notice that
\* names the stream, and process_line returns Ok: main goes on with its
\* loop, takes every input, and is only ever left with an error by a file
\* that does not open.
C8_ReadFailureEndsOneStream ==
    /\ [][ReadFails =>
            /\ UNCHANGED << index, yielded, calls, current_count,
                            before_buffer, after_countdown >>
            /\ LineRecords(out') = LineRecords(out)
            /\ \E k \in 1..Len(out') :
                out'[k].kind = "error" /\ out'[k].prefix = << Last.name >>]_vars
    /\ [][(HasStream /\ Last.state = "broken" /\ Len(streams') = Len(streams)) =>
            /\ UNCHANGED << index, current_count, before_buffer,
                            after_countdown >>
            /\ pc' \in {"loop", "walk", "done"}
            /\ yielded' \in {yielded, << >>}
            /\ out' \in {out, << >>}]_vars
    /\ [](pc = "failed" => Last.state = "unopened")
    /\ [](pc = "done" => input_idx = args.inputs)

\* a stream is scanned after an earlier stream of the run broke off, lines
\* read in both
C8_Witness ==
    /\ pc = "scan" /\ Len(yielded) >= 1
    /\ \E k \in 1..(Len(streams) - 1) : streams[k].state = "broken"
    /\ shapes # {}

\* C9: a malformed pattern stops the run before any input is touched: no
\* stream is resolved, opened or read and nothing is printed.
C9_MalformedPatternFirst ==
    ~args.pattern_ok =>
        /\ pc \in {"start", "panicked"}
        /\ streams = << >>
        /\ yielded = << >>
        /\ out = << >>
        /\ shapes = {}

\* the run has stopped on a malformed pattern with inputs given
C9_Witness == pc = "panicked" /\ args.inputs > 0 /\ ~args.pattern_ok

\* C10: in count mode a scan prints no line record, and exactly one
\* summary, once the last line is processed: the count alone when
\* labelling is off, the stream name and the count when it is on.
C10_CountModeOutput ==
    (InCall /\ args.count) =>
        /\ LineRecords(out) = << >>
        /\ pc # "returned" => out = << >>
        /\ pc = "returned" =>
            /\ Len(CountRecords(out)) = 1
            /\ out[Len(out)] =
                [kind |-> "count",
                 prefix |-> IF labelled THEN << Last.name >> ELSE << >>,
                 num |-> current_count,
                 text |-> << >>]

\* a labelled count-mode scan has returned, lines counted and lines not
C10_Witness ==
    /\ pc = "returned" /\ args.count /\ labelled
    /\ Len(streams) = 2
    /\ current_count >= 2
    /\ current_count < Len(yielded)

\* C11: every line record carries the 1-based position of its own line in
\* its stream: the text under number n is the n-th line the stream yielded
\* (a flushed before-context line keeps the position it was read at, not
\* that of the match that flushes it), the numbering starts at 1 again in
\* every stream, and no two line records of one stream carry one number.
C11_OwnLineNumber ==
    (InCall /\ ~args.count) =>
        /\ \A k \in 1..Len(LineRecords(out)) :
            LET r == LineRecords(out)[k]
            IN  /\ r.num \in 1..Len(yielded)
                /\ Plain(r.text) = yielded[r.num]
        /\ Distinct(Numbers(out))
        /\ (Len(yielded) >= 1 /\ Qualifies(yielded[1], args.invert_match)) =>
                (Len(LineRecords(out)) >= 1 /\ LineRecords(out)[1].num = 1)

\* in the second stream of a run whose first stream printed lines, the
\* first line was buffered and then flushed by a match further down
C11_Witness ==
    /\ pc = "scan" /\ ~args.count
    /\ Len(streams) = 2 /\ streams[1].state # "unopened" /\ shapes # {}
    /\ Len(LineRecords(out)) >= 2
    /\ LineRecords(out)[1].num = 1
    /\ ~Qualifies(yielded[1], args.invert_match)
    /\ \E m \in Matches(yielded, args.invert_match) :
        m >= 1 /\ (m + 1) = LineRecords(out)[Len(LineRecords(out))].num

\* a text that is `line` with every occurrence of the pattern, and nothing
\* else, between a pair of styling escapes
Marked(text, line) ==
    /\ Plain(text) = line
    /\ \A i \in 1..Len(text) :
        /\ text[i] = "p" =>
            (i > 1 /\ i < Len(text) /\ text[i - 1] = "<b>" /\ text[i + 1] = "</b>")
        /\ text[i] = "<b>" => (i < Len(text) /\ text[i + 1] = "p")
        /\ text[i] = "</b>" => (i > 1 /\ text[i - 1] = "p")

\* C12: a line is treated as a match iff the pattern matches it XOR the
\* invert flag is set: every such line read is emitted or counted, and no
\* such line is buffered.  The text of a line record is marked only when
\* the invert flag is off and the line is a direct match; a before- or
\* after-context line, and every line emitted in invert mode, goes out
\* verbatim.
C12_MatchAndMarking ==
    InCall =>
        /\ \A i \in Matches(yielded, args.invert_match) :
            \E k \in 1..Len(calls) : calls[k] = i
        /\ \A b \in 1..Len(before_buffer) :
            ~Qualifies(before_buffer[b][2], args.invert_match)
        /\ ~args.count =>
            \A k \in 1..Len(LineRecords(out)) :
                LET r == LineRecords(out)[k]
                    l == yielded[r.num]
                IN  IF ~args.invert_match /\ Qualifies(l, args.invert_match)
                    THEN Marked(r.text, l) /\ r.text # l
                    ELSE r.text = l

\* a scan has printed a marked match between a verbatim before-context
\* line and a verbatim after-context line
C12_Witness ==
    /\ pc = "scan" /\ ~args.count /\ ~args.invert_match
    /\ Len(LineRecords(out)) >= 3
    /\ \E k \in 2..(Len(LineRecords(out)) - 1) :
        /\ LineRecords(out)[k].text # yielded[LineRecords(out)[k].num]
        /\ LineRecords(out)[k - 1].text = yielded[LineRecords(out)[k].num - 1]
        /\ LineRecords(out)[k + 1].text = yielded[LineRecords(out)[k].num + 1]

\* an invert-mode scan has printed a context line that holds the pattern
C12_WitnessInverted ==
    /\ pc = "scan" /\ ~args.count /\ args.invert_match
    /\ \E k \in 1..Len(LineRecords(out)) : is_match(LineRecords(out)[k].text)

\* C13: the context sizes main hands to process_line are both the unified
\* value when that is positive, whatever the separate values are, and are
\* the separate before and after values when it is 0; they stay as set for
\* the whole run.
C13_EffectiveContext ==
    /\ [](pc = "configured" =>
            /\ options.context > 0 =>
                (before_context = options.context /\ after_context = options.context)
            /\ options.context = 0 =>
                (before_context = options.before_context
                 /\ after_context = options.after_context))
    /\ [][pc # "start" => UNCHANGED << before_context, after_context >>]_vars

\* main has set its locals from a positive unified value smaller than the
\* separate before value and different from the separate after value
C13_Witness ==
    /\ pc = "configured"
    /\ options.context > 0
    /\ options.before_context > options.context
    /\ options.after_context # options.context
    /\ before_context = options.context

\* C14 as stated: the look-behind buffer never holds more than `before`
\* records, the point between push_back and the length check included.
C14_NeverAboveBefore ==
    InCall => Len(before_buffer) <= before_context

\* C14: at every loop-iteration boundary, and when process_line has
\* returned, the look-behind buffer holds at most `before` records; between
\* push_back and the length check that follows it holds at most
\* `before` + 1, the record just pushed included.
C14_BoundedAtBoundary ==
    /\ (InCall /\ pc # "pushed") => Len(before_buffer) <= before_context
    /\ pc = "pushed" =>
        /\ Len(before_buffer) <= before_context + 1
        /\ Len(before_buffer) >= 1
        /\ before_buffer[Len(before_buffer)] = << index, yielded[Len(yielded)] >>

\* a full buffer has taken one more line and evicted its oldest record
C14_Witness ==
    /\ pc = "scan"
    /\ before_context >= 1
    /\ Len(before_buffer) = before_context
    /\ calls = << >>
    /\ index > before_context
    /\ before_buffer[1][1] = index - before_context

\* the stream [a, b, MATCH, c, d]
TailExample == << <<"o">>, <<"o">>, <<"p", "o">>, <<"o">>, <<"o">> >>

\* what process_line prints for it in print mode with before = 1, after = 1
TailExampleOut ==
    process_line(TailExample, FALSE, FALSE, FALSE, FALSE, StdinName, 1, 1)

\* C15: the lines still in the look-behind buffer when the scan of a
\* stream is over, by end of stream or by a read failure, are neither
\* emitted nor counted: no line record carries their position, the records
\* and the count are those of the calls made while lines were read, and
\* [a, b, MATCH, c, d] with before = 1 and after = 1 gives exactly
\* [b, MATCH, c].
C15_UnflushedTail ==
    /\ Returned =>
        /\ \A b \in 1..Len(before_buffer) :
            /\ \A k \in 1..Len(calls) : calls[k] # before_buffer[b][1]
            /\ before_buffer[b][1] \notin Positions(out)
        /\ ~args.count => Len(LineRecords(out)) = Len(calls)
        /\ args.count => CountRecords(out)[1].num = Len(calls)
        /\ (~args.count /\ ~args.invert_match /\ yielded = TailExample
                /\ before_context = 1 /\ after_context = 1) =>
            Numbers(out) = << 2, 3, 4 >>
    /\ Numbers(TailExampleOut) = << 2, 3, 4 >>

\* the scan of [b, MATCH, c, d] with before = 1 and after = 1 is over:
\* b, MATCH and c went out, d is still buffered
C15_Witness ==
    /\ Returned /\ ~args.count /\ ~args.invert_match
    /\ before_context = 1 /\ after_context = 1
    /\ yielded = Tail(TailExample)
    /\ Numbers(out) = << 1, 2, 3 >>
    /\ before_buffer = << << 3, <<"o">> >> >>

\* the positions a non-matching line is read at while after_countdown > 0:
\* at most `after` lines behind the nearest matching line before it
InAfterWindow(ls, invert, after) ==
    LET ms == Matches(ls, invert)
    IN  { j \in 0..(Len(ls) - 1) :
            /\ j \notin ms
            /\ \E i \in ms :
                /\ i < j /\ j <= i + after
                /\ \A m \in ms : m < j => m <= i }

\* the stream [MATCH1, x, MATCH2]
BetweenExample == << <<"p", "o">>, <<"o">>, <<"p", "o">> >>

\* C16: a non-matching line read while after_countdown > 0 is emitted (or
\* counted) in that very iteration and is never in the look-behind buffer,
\* at no later point either; [MATCH1, x, MATCH2] with before = 1 and
\* after = 1 gives [MATCH1, x, MATCH2], each line once.
C16_AfterBeforeBuffering ==
    InCall =>
        /\ \A j \in InAfterWindow(yielded, args.invert_match, after_context) :
            /\ \E k \in 1..Len(calls) : calls[k] = j
            /\ \A b \in 1..Len(before_buffer) : before_buffer[b][1] # j
        /\ (~args.invert_match /\ yielded = BetweenExample
                /\ before_context = 1 /\ after_context = 1) =>
            /\ calls = << 0, 1, 2 >>
            /\ ~args.count => Numbers(out) = << 1, 2, 3 >>
            /\ args.count => current_count = 3
            /\ before_buffer = << >>

\* [MATCH1, x, MATCH2] has been read in print mode with before = 1 and
\* after = 1
C16_Witness ==
    /\ pc = "scan" /\ ~args.count /\ ~args.invert_match
    /\ before_context = 1 /\ after_context = 1
    /\ yielded = BetweenExample
    /\ Len(LineRecords(out)) = 3

\* C17: the scan state does not pass from one stream to the next: a scan
\* starts with an empty look-behind buffer, after_countdown = 0 and
\* current_count = 0; the lines it emits or counts lie within the windows
\* of the matches of its own stream (none is after-context of a match of
\* the stream before), the records it buffers and the lines it prints are
\* lines of its own stream, and its summary counts its own lines only.
C17_NoLeakAcrossStreams ==
    InCall =>
        LET own == Window(yielded, args.invert_match,
                          before_context, after_context)
        IN  /\ (pc = "scan" /\ yielded = << >>) =>
                /\ before_buffer = << >>
                /\ after_countdown = 0
                /\ current_count = 0
            /\ { calls[k] : k \in 1..Len(calls) } \subseteq own
            /\ \A b \in 1..Len(before_buffer) :
                /\ before_buffer[b][1] \in 0..(Len(yielded) - 1)
                /\ before_buffer[b][2] = yielded[before_buffer[b][1] + 1]
            /\ ~args.count =>
                \A k \in 1..Len(LineRecords(out)) :
                    /\ LineRecords(out)[k].num \in 1..Len(yielded)
                    /\ Plain(LineRecords(out)[k].text) =
                            yielded[LineRecords(out)[k].num]
            /\ current_count = IF args.count THEN Cardinality(own) ELSE 0
            /\ (Returned /\ args.count) =>
                CountRecords(out)[1].num = Cardinality(own)

\* the second stream of a run is scanned with both context sizes positive,
\* the first stream printed lines, and the second has read two lines that
\* do not match and has emitted and buffered as its own lines say
C17_Witness ==
    /\ pc = "scan" /\ ~args.count
    /\ Len(streams) = 2 /\ streams[1].state # "unopened" /\ shapes # {}
    /\ before_context > 0 /\ after_context > 0
    /\ Len(yielded) >= 2
    /\ Matches(yielded, args.invert_match) = {}
    /\ out = << >>
    /\ Len(before_buffer) >= 1

\* a step of a scan in which the reader yields a line
ReadsLine == pc = "scan" /\ Len(yielded') = Len(yielded) + 1

\* C18: after_countdown stays within 0..after. The iteration over a
\* matching line leaves it at exactly `after`, whatever it was; the
\* iteration over a non-matching line takes one off when it is positive and
\* leaves it alone when it is 0; no other step of a scan changes it.
C18_CountdownSteps ==
    /\ [](InCall => after_countdown \in 0..after_context)
    /\ [][ReadsLine =>
            after_countdown' =
                IF Qualifies(yielded'[Len(yielded')], args.invert_match)
                THEN after_context
                ELSE IF after_countdown > 0 THEN after_countdown - 1
                ELSE after_countdown]_vars
    /\ [][(pc \in {"scan", "pushed"} /\ ~ReadsLine) =>
            UNCHANGED after_countdown]_vars

\* a match was read while the window of the match before it was running
C18_Witness ==
    /\ pc = "scan"
    /\ after_context >= 1
    /\ Len(yielded) >= 3
    /\ after_countdown = after_context
    /\ (Len(yielded) - 1) \in Matches(yielded, args.invert_match)
    /\ (Len(yielded) - 2) \in Matches(yielded, args.invert_match)
    /\ (Len(yielded) - 3) \notin Matches(yielded, args.invert_match)

\* a window has run out over non-matching lines and a later line left the
\* countdown at 0
C18_WitnessRunOut ==
    /\ pc = "scan"
    /\ after_context >= 1
    /\ after_countdown = 0
    /\ Len(yielded) >= 3
    /\ (Len(yielded) - 3) \in Matches(yielded, args.invert_match)
    /\ (Len(yielded) - 2) \notin Matches(yielded, args.invert_match)
    /\ (Len(yielded) - 1) \notin Matches(yielded, args.invert_match)

\* the number of most recent lines read that were neither emitted nor
\* counted
Unemitted ==
    CHOOSE k \in 0..Len(yielded) :
        /\ \A j \in (Len(yielded) - k)..(Len(yielded) - 1) :
            \A c \in 1..Len(calls) : calls[c] # j
        /\ k < Len(yielded) =>
            \E c \in 1..Len(calls) : calls[c] = Len(yielded) - k - 1

\* the smaller of two numbers
Min(a, b) == IF a < b THEN a ELSE b

\* the last n lines read with their indices, in stream order
LastRead(n) ==
    [b \in 1..n |-> << Len(yielded) - n + b - 1, yielded[Len(yielded) - n + b] >>]

\* C19: at every loop-iteration boundary the look-behind buffer is the
\* last min(before, k) lines read, in stream order, k being the number of
\* most recent lines neither emitted nor counted; so it holds only
\* non-matching lines that were not emitted, and it is empty while
\* after_countdown > 0 and after a matching line.
C19_BufferIsRecentTail ==
    (InCall /\ pc # "pushed") =>
        /\ before_buffer = LastRead(Min(before_context, Unemitted))
        /\ \A b \in 1..Len(before_buffer) :
            /\ ~Qualifies(before_buffer[b][2], args.invert_match)
            /\ \A c \in 1..Len(calls) : calls[c] # before_buffer[b][1]
        /\ after_countdown > 0 => before_buffer = << >>
        /\ (Len(yielded) >= 1
                /\ Qualifies(yielded[Len(yielded)], args.invert_match)) =>
            before_buffer = << >>

\* after an emission three lines went to a buffer of two: the oldest was
\* evicted and the two most recent are held in order
C19_Witness ==
    /\ pc = "scan"
    /\ before_context = 2
    /\ calls # << >>
    /\ Unemitted >= 3
    /\ Len(before_buffer) = 2
    /\ before_buffer[1][1] = Len(yielded) - 2
    /\ before_buffer[2][1] = Len(yielded) - 1

\* C20: when the reader fails after k lines, what the scan has printed
\* stays, the notice follows it, and in count mode the summary follows the
\* notice: its value is the number of lines among the k read that lie in
\* the window of a match read, which leaves out the lines still buffered.
C20_SummaryAfterReadError ==
    [][ReadFails =>
        /\ Len(out') = Len(out) + (IF args.count THEN 2 ELSE 1)
        /\ SubSeq(out', 1, Len(out)) = out
        /\ out'[Len(out) + 1].kind = "error"
        /\ out'[Len(out) + 1].prefix = << file_name >>
        /\ args.count =>
            /\ out = << >>
            /\ out'[2].kind = "count"
            /\ out'[2].prefix = IF labelled THEN << file_name >> ELSE << >>
            /\ out'[2].num =
                Cardinality(Window(yielded, args.invert_match,
                                   before_context, after_context))
            /\ out'[2].num = Len(calls)
            /\ out'[2].num + Len(before_buffer) <= Len(yielded)]_vars

\* a count-mode scan broke off after it had counted lines, with a line
\* still buffered
C20_Witness ==
    /\ Returned /\ args.count
    /\ Last.state = "broken"
    /\ Len(out) = 2
    /\ out[2].kind = "count" /\ out[2].num >= 2
    /\ before_buffer # << >>

====
